---- MODULE Spec2Model ----
(***************************************************************************)
(* Todo App Phase I Core (src/Phase I/src/main.py): the in-memory task     *)
(* list, its five operations and the menu loop that drives them.           *)
(*                                                                         *)
(* A line of text is a sequence of one-character strings; a printed line   *)
(* is a sequence of string fragments; `out` is the sequence of lines and   *)
(* prompts the last step wrote to standard output.                         *)
(***************************************************************************)
EXTENDS Integers, Sequences, FiniteSets, TLC

\* Largest id an add may assign in the model (the program has no such cap).
MaxId == 3

VARIABLES
    tasks,      \* main's `tasks`: the list of task dicts, in list order
    pc,         \* where main is: MENU, AWAIT_INT_INPUT, EXIT, INTERRUPTED, ABORTED
    prompt,     \* the prompt get_int_input is looping on (AWAIT_INT_INPUT)
    out,        \* what the last step printed
    op,         \* the operation the last step ran, "none" if it ran none
    arg,        \* the task_id that operation was called with (0 if it takes none)
    ret,        \* what that operation returned
    assigned,   \* the ids add_task has assigned so far (history)
    typed,      \* what the last step's get_int_input read (NoLine if it read nothing)
    got         \* <<n>> if that get_int_input returned n, <<>> if it returned nothing

vars == <<tasks, pc, prompt, out, op, arg, ret, assigned, typed, got>>

----------------------------------------------------------------------------
\* Text: input lines, str.strip, int(), str(int)

Interrupt == <<"^C">>

\* No read from standard input.
NoLine == <<"(none)">>

\* The lines a user may type at the Title / Description prompts.
TextLines == {<<>>, <<" ">>, <<"a">>, <<" ", "a", " ">>}

\* What input() gives update_task and add_task: a line, or KeyboardInterrupt.
TextInputs == TextLines \cup {Interrupt}

\* The lines a user may type at an integer prompt.
IntLines ==
    {<<>>, <<"x">>, <<"-", "1">>, <<" ", "2", " ">>, <<"1", "a">>}
        \cup {<<d>> : d \in {"0", "1", "2", "3", "4", "5", "6"}}

IsSpace(c) == c \in {" ", "\t"}

RECURSIVE lstrip(_)
lstrip(s) ==
    IF s # <<>> /\ IsSpace(Head(s)) THEN lstrip(Tail(s)) ELSE s

RECURSIVE rstrip(_)
rstrip(s) ==
    IF s # <<>> /\ IsSpace(s[Len(s)])
    THEN rstrip(SubSeq(s, 1, Len(s) - 1))
    ELSE s

\* A strip that trims the left end only.
strip_leading_only(s) == lstrip(s)

\* str.strip()
strip(s) == rstrip(lstrip(s))

Digits == <<"0", "1", "2", "3", "4", "5", "6", "7", "8", "9">>

IsDigit(c) == \E i \in 1..Len(Digits) : Digits[i] = c

DigitValue(c) == (CHOOSE i \in 1..Len(Digits) : Digits[i] = c) - 1

RECURSIVE DigitsValue(_, _)
DigitsValue(s, acc) ==
    IF s = <<>> THEN acc
    ELSE DigitsValue(Tail(s), acc * 10 + DigitValue(Head(s)))

AllDigits(s) == s # <<>> /\ \A i \in 1..Len(s) : IsDigit(s[i])

\* A parse that knows no sign: "-1" raises ValueError.
int_unsigned(line) ==
    LET s == strip(line)
    IN  IF AllDigits(s)
        THEN [ok |-> TRUE, val |-> DigitsValue(s, 0)]
        ELSE [ok |-> FALSE, val |-> 0]

\* int(line): surrounding whitespace is ignored, then an optional sign and
\* one or more decimal digits; anything else raises ValueError (ok = FALSE).
int(line) ==
    LET s == strip(line)
        signed == s # <<>> /\ Head(s) \in {"-", "+"}
        body == IF signed THEN Tail(s) ELSE s
    IN  IF AllDigits(body)
        THEN [ok |-> TRUE,
              val |-> IF signed /\ Head(s) = "-"
                      THEN 0 - DigitsValue(body, 0)
                      ELSE DigitsValue(body, 0)]
        ELSE [ok |-> FALSE, val |-> 0]

\* int() of each line a user may type, computed once.
Parsed == [l \in IntLines |-> int(l)]

\* str(n), as an f-string formats an int.
str(n) == ToString(n)

----------------------------------------------------------------------------
\* Helper functions

\* find_task: the first task whose id matches, as its position in the list
\* (the dict object the code returns is that list element); 0 is None.
RECURSIVE find_from(_, _, _)
find_from(ts, task_id, i) ==
    IF i > Len(ts) THEN 0
    ELSE IF ts[i].id = task_id THEN i
    ELSE find_from(ts, task_id, i + 1)

\* A lookup that takes the id for a position in the list.
find_task_by_position(ts, task_id) ==
    IF task_id \in 1..Len(ts) THEN task_id ELSE 0

find_task(ts, task_id) == find_from(ts, task_id, 1)

\* max(iterable, default=0): a left-to-right scan keeping the largest.
RECURSIVE max_id(_, _)
max_id(ts, best) ==
    IF ts = <<>> THEN best
    ELSE max_id(Tail(ts), IF Head(ts).id > best THEN Head(ts).id ELSE best)

\* A next id taken from the number of tasks instead of the largest id.
get_next_id_count(ts) == Len(ts) + 1

\* A next id taken from the last task of the list instead of the largest id.
get_next_id_last(ts) == IF ts = <<>> THEN 1 ELSE ts[Len(ts)].id + 1

\* A next id that fills gaps: the smallest positive integer no task holds.
get_next_id_first_gap(ts) ==
    LET held == {ts[i].id : i \in 1..Len(ts)}
    IN  CHOOSE n \in 1..(Len(ts) + 1) :
            n \notin held /\ \A m \in 1..(n - 1) : m \in held

\* A next id that counts from 0: the largest id plus one, or 0 if empty.
get_next_id_from_zero(ts) ==
    IF ts = <<>> THEN 0 ELSE max_id(Tail(ts), Head(ts).id) + 1

\* get_next_id: max((t["id"] for t in tasks), default=0) + 1.
get_next_id(ts) ==
    (IF ts = <<>> THEN 0 ELSE max_id(Tail(ts), Head(ts).id)) + 1

\* A removal that drops the last element, whatever x is (list.pop()).
list_remove_last(ts, x) == SubSeq(ts, 1, Len(ts) - 1)

\* list.remove(x): drops the first element equal to x.
RECURSIVE list_remove(_, _)
list_remove(ts, x) ==
    IF ts = <<>> THEN ts
    ELSE IF Head(ts) = x THEN Tail(ts)
    ELSE <<Head(ts)>> \o list_remove(Tail(ts), x)

----------------------------------------------------------------------------
\* Printed lines

NotFoundMsg(task_id) == <<"Task with ID ", str(task_id), " not found.">>
AddedMsg(task_id) == <<"Task added successfully (ID: ", str(task_id), ").">>
UpdatedMsg == <<"Task updated.">>
CompleteMsg == <<"Task marked as complete.">>
IncompleteMsg == <<"Task marked as incomplete.">>
NoTasksMsg == <<"No tasks yet. Add one!">>
InvalidIntMsg == <<"Invalid input. Please enter a valid integer.">>
InvalidOptionMsg(n) == <<"Option ", str(n), " not valid. Please choose 0-5.">>
InterruptMsg == <<"\nGoodbye!">>
FarewellMsg == <<"Goodbye! Have a nice day.">>

TitlePrompt == <<"Title: ">>
DescPrompt == <<"Description: ">>
NewTitlePrompt == <<"New title (press Enter to keep): ">>
NewDescPrompt == <<"New description (press Enter to keep): ">>
ChoicePrompt == <<"Choose an option: ">>
UpdatePrompt == <<"Enter task ID to update: ">>
DeletePrompt == <<"Enter task ID to delete: ">>
TogglePrompt == <<"Enter task ID to toggle: ">>

\* A line whose glyph is the wrong way round.
TaskLine_inverted_glyph(task) ==
    <<str(task.id), ". ", IF task.complete THEN "[ ]" ELSE "[X]", " ">>
        \o task.title \o <<" - ">> \o task.desc

TaskLine(task) ==
    <<str(task.id), ". ", IF task.complete THEN "[X]" ELSE "[ ]", " ">>
        \o task.title \o <<" - ">> \o task.desc

display_menu ==
    << <<"\nWelcome to my Todo App">>, <<"========">>, <<"1. Add Task">>,
       <<"2. View Tasks">>, <<"3. Update Task">>, <<"4. Delete Task">>,
       <<"5. Mark as Complete/Incomplete">>, <<"0. Exit">> >>

----------------------------------------------------------------------------
\* Core operations.  Each is the function of main.py of the same name, as
\* the record of its effects: the list afterwards, the lines it printed,
\* its return value ("True", "False" or "None"), and whether input() raised
\* KeyboardInterrupt inside it (no operation catches it).

Result(ts, printed, value, kbd) ==
    [tasks |-> ts, out |-> printed, ret |-> value, raised |-> kbd]

\* An add that refuses an empty title.
add_task_requires_title(ts, title_in, desc_in) ==
    IF title_in = Interrupt
    THEN Result(ts, <<TitlePrompt>>, "None", TRUE)
    ELSE IF desc_in = Interrupt
    THEN Result(ts, <<TitlePrompt, DescPrompt>>, "None", TRUE)
    ELSE IF strip(title_in) = <<>>
    THEN Result(ts, <<TitlePrompt, DescPrompt>>, "None", FALSE)
    ELSE Result(Append(ts, [id |-> get_next_id(ts), title |-> strip(title_in),
                            desc |-> strip(desc_in), complete |-> FALSE]),
                <<TitlePrompt, DescPrompt, AddedMsg(get_next_id(ts))>>,
                "None", FALSE)

\* An add that puts the new task at the front (list.insert(0, ...)).
add_task_prepends(ts, title_in, desc_in) ==
    IF title_in = Interrupt
    THEN Result(ts, <<TitlePrompt>>, "None", TRUE)
    ELSE IF desc_in = Interrupt
    THEN Result(ts, <<TitlePrompt, DescPrompt>>, "None", TRUE)
    ELSE
        LET task_id == get_next_id(ts)
        IN  Result(<<[id |-> task_id, title |-> strip(title_in),
                      desc |-> strip(desc_in), complete |-> FALSE]>> \o ts,
                   <<TitlePrompt, DescPrompt, AddedMsg(task_id)>>,
                   "None", FALSE)

\* add_task: two stripped lines, the next id, tasks.append, the message.
add_task(ts, title_in, desc_in) ==
    IF title_in = Interrupt
    THEN Result(ts, <<TitlePrompt>>, "None", TRUE)
    ELSE IF desc_in = Interrupt
    THEN Result(ts, <<TitlePrompt, DescPrompt>>, "None", TRUE)
    ELSE
        LET title == strip(title_in)
            desc == strip(desc_in)
            task_id == get_next_id(ts)
        IN  Result(Append(ts, [id |-> task_id, title |-> title,
                               desc |-> desc, complete |-> FALSE]),
                   <<TitlePrompt, DescPrompt, AddedMsg(task_id)>>,
                   "None", FALSE)

RECURSIVE task_lines(_)
task_lines(ts) ==
    IF ts = <<>> THEN <<>>
    ELSE <<TaskLine(Head(ts))>> \o task_lines(Tail(ts))

\* A listing that consumes the list it prints.
print_tasks_drains(ts) ==
    IF ts = <<>>
    THEN Result(ts, <<NoTasksMsg>>, "None", FALSE)
    ELSE Result(<<>>, << <<"Tasks:">>, <<"------">> >> \o task_lines(ts),
                "None", FALSE)

print_tasks(ts) ==
    IF ts = <<>>
    THEN Result(ts, <<NoTasksMsg>>, "None", FALSE)
    ELSE Result(ts, << <<"Tasks:">>, <<"------">> >> \o task_lines(ts),
                "None", FALSE)

delete_task(ts, task_id) ==
    LET i == find_task(ts, task_id)
    IN  IF i # 0
        THEN Result(list_remove(ts, ts[i]), <<>>, "True", FALSE)
        ELSE Result(ts, <<NotFoundMsg(task_id)>>, "False", FALSE)

\* Assignments that overwrite both fields as soon as either is given.
set_fields_both(task, new_title, new_desc) ==
    IF new_title # <<>> \/ new_desc # <<>>
    THEN [task EXCEPT !.title = new_title, !.desc = new_desc]
    ELSE task

\* update_task, the two conditional assignments: a non-empty replacement
\* overwrites its field, an empty one keeps it.
set_fields(task, new_title, new_desc) ==
    LET t1 == IF new_title # <<>> THEN [task EXCEPT !.title = new_title] ELSE task
    IN  IF new_desc # <<>> THEN [t1 EXCEPT !.desc = new_desc] ELSE t1

update_task(ts, task_id, title_in, desc_in) ==
    LET i == find_task(ts, task_id)
    IN  IF i = 0
        THEN Result(ts, <<NotFoundMsg(task_id)>>, "False", FALSE)
        ELSE
            LET current == << <<"Current title: ">> \o ts[i].title,
                              <<"Current description: ">> \o ts[i].desc >>
            IN  IF title_in = Interrupt
                THEN Result(ts, current \o <<NewTitlePrompt>>, "None", TRUE)
                ELSE IF desc_in = Interrupt
                THEN Result(ts, current \o <<NewTitlePrompt, NewDescPrompt>>,
                            "None", TRUE)
                ELSE
                    LET new_title == strip(title_in)
                        new_desc == strip(desc_in)
                        changed == new_title # <<>> \/ new_desc # <<>>
                    IN  Result([ts EXCEPT ![i] = set_fields(ts[i], new_title, new_desc)],
                               current \o <<NewTitlePrompt, NewDescPrompt>>
                                   \o (IF changed THEN <<UpdatedMsg>> ELSE <<>>),
                               "True", FALSE)

\* A toggle that only ever marks the task complete.
flip_mark_complete(task) == [task EXCEPT !.complete = TRUE]

\* task["complete"] = not task["complete"]
flip(task) == [task EXCEPT !.complete = ~task.complete]

\* A toggle whose message is chosen from the flag as it was before the flip.
toggle_complete_stale_message(ts, task_id) ==
    LET i == find_task(ts, task_id)
    IN  IF i = 0
        THEN Result(ts, <<NotFoundMsg(task_id)>>, "False", FALSE)
        ELSE Result([ts EXCEPT ![i] = flip(ts[i])],
                    IF ts[i].complete THEN <<CompleteMsg>> ELSE <<IncompleteMsg>>,
                    "True", FALSE)

\* A toggle that flips every task of the list once the id is found.
toggle_complete_all(ts, task_id) ==
    LET i == find_task(ts, task_id)
    IN  IF i = 0
        THEN Result(ts, <<NotFoundMsg(task_id)>>, "False", FALSE)
        ELSE Result([j \in 1..Len(ts) |-> flip(ts[j])],
                    IF ts[i].complete THEN <<IncompleteMsg>> ELSE <<CompleteMsg>>,
                    "True", FALSE)

\* toggle_complete: find the task, negate its flag, print the new status.
toggle_complete(ts, task_id) ==
    LET i == find_task(ts, task_id)
    IN  IF i = 0
        THEN Result(ts, <<NotFoundMsg(task_id)>>, "False", FALSE)
        ELSE
            LET flipped == [ts EXCEPT ![i] = flip(ts[i])]
            IN  Result(flipped,
                       IF flipped[i].complete
                       THEN <<CompleteMsg>> ELSE <<IncompleteMsg>>,
                       "True", FALSE)

----------------------------------------------------------------------------
Init ==
    /\ tasks = <<>>
    /\ pc = "MENU"
    /\ prompt = <<>>
    /\ out = <<>>
    /\ op = "none"
    /\ arg = 0
    /\ ret = "None"
    /\ assigned = {}
    /\ typed = NoLine
    /\ got = <<>>

----------------------------------------------------------------------------
\* The menu loop (main, get_menu_choice, get_int_input).  A step is one
\* read from standard input together with everything the program does
\* until it next reads at an integer prompt.

\* get_int_input(p) is waiting for a line.
Awaiting(p) == pc = "AWAIT_INT_INPUT" /\ prompt = p

\* A loop that stops once an operation reports failure.
Ran_ends_on_failure(name, task_id, r) ==
    LET done == r
    IN  /\ op' = name
        /\ arg' = task_id
        /\ tasks' = done.tasks
        /\ out' = <<prompt>> \o done.out
        /\ ret' = done.ret
        /\ pc' = IF done.raised THEN "ABORTED"
                 ELSE IF done.ret = "False" THEN "EXIT" ELSE "MENU"
        /\ prompt' = <<>>

\* The operation `name`(task_id) ran with effects r, after the integer
\* prompt printed its prompt; an uncaught KeyboardInterrupt ends the process.
Ran(name, task_id, r) ==
    LET done == r
    IN  /\ op' = name
        /\ arg' = task_id
        /\ tasks' = done.tasks
        /\ out' = <<prompt>> \o done.out
        /\ ret' = done.ret
        /\ pc' = IF done.raised THEN "ABORTED" ELSE "MENU"
        /\ prompt' = <<>>

\* A step that runs no operation and leaves the list alone.
Shell(next_pc, next_prompt, printed) ==
    /\ pc' = next_pc
    /\ prompt' = next_prompt
    /\ out' = printed
    /\ op' = "none"
    /\ arg' = 0
    /\ ret' = "None"
    /\ UNCHANGED <<tasks, assigned>>

\* get_int_input read this line and returned its integer, or raised or
\* looped (returned == <<>>).
Read(l, returned) == typed' = l /\ got' = returned

\* get_menu_choice, top of its loop: display_menu(), then get_int_input.
DisplayMenu ==
    /\ pc = "MENU"
    /\ Shell("AWAIT_INT_INPUT", ChoicePrompt, display_menu)
    /\ Read(NoLine, <<>>)

\* get_int_input: the line is no integer (ValueError), prompt again.
InvalidInt ==
    /\ pc = "AWAIT_INT_INPUT"
    /\ \E line \in IntLines :
        /\ ~Parsed[line].ok
        /\ Shell("AWAIT_INT_INPUT", prompt, <<prompt, InvalidIntMsg>>)
        /\ Read(line, <<>>)

\* get_int_input: KeyboardInterrupt, print the farewell and sys.exit(0).
InterruptInt ==
    /\ pc = "AWAIT_INT_INPUT"
    /\ Shell("INTERRUPTED", <<>>, <<prompt, InterruptMsg>>)
    /\ Read(Interrupt, <<>>)

\* A rejection that asks again without showing the menu again.
OutOfRange_no_redisplay ==
    /\ Awaiting(ChoicePrompt)
    /\ \E line \in IntLines :
        /\ Parsed[line].ok
        /\ ~(0 <= Parsed[line].val /\ Parsed[line].val <= 5)
        /\ Shell("AWAIT_INT_INPUT", ChoicePrompt,
                 <<prompt, InvalidOptionMsg(Parsed[line].val)>>)
        /\ Read(line, <<Parsed[line].val>>)

\* get_menu_choice: an integer outside 0..5, back to the top of its loop.
OutOfRange ==
    /\ Awaiting(ChoicePrompt)
    /\ \E line \in IntLines :
        /\ Parsed[line].ok
        /\ ~(0 <= Parsed[line].val /\ Parsed[line].val <= 5)
        /\ Shell("MENU", <<>>, <<prompt, InvalidOptionMsg(Parsed[line].val)>>)
        /\ Read(line, <<Parsed[line].val>>)

\* main: choice 0 leaves the loop.
ChooseExit ==
    /\ Awaiting(ChoicePrompt)
    /\ \E line \in IntLines :
        /\ Parsed[line].ok /\ Parsed[line].val = 0
        /\ Shell("EXIT", <<>>, <<prompt, FarewellMsg>>)
        /\ Read(line, <<Parsed[line].val>>)

\* main: choice 1, add_task(tasks).
ChooseAdd ==
    /\ Awaiting(ChoicePrompt)
    /\ get_next_id(tasks) <= MaxId
    /\ \E line \in IntLines :
        /\ Parsed[line].ok /\ Parsed[line].val = 1
        /\ Read(line, <<Parsed[line].val>>)
        /\ \E title_in \in TextInputs, desc_in \in TextInputs :
            /\ Ran("add", 0, add_task(tasks, title_in, desc_in))
            /\ assigned' = IF add_task(tasks, title_in, desc_in).raised
                           THEN assigned
                           ELSE assigned \cup {get_next_id(tasks)}

\* main: choice 2, print_tasks(tasks).
ChooseList ==
    /\ Awaiting(ChoicePrompt)
    /\ \E line \in IntLines :
        /\ Parsed[line].ok /\ Parsed[line].val = 2
        /\ Read(line, <<Parsed[line].val>>)
        /\ Ran("list", 0, print_tasks(tasks))
        /\ UNCHANGED assigned

\* A dispatch that asks "to toggle" for choice 4 and "to delete" for 5.
ChooseTarget_swapped ==
    /\ Awaiting(ChoicePrompt)
    /\ \E line \in IntLines :
        /\ Parsed[line].ok
        /\ Read(line, <<Parsed[line].val>>)
        /\ \/ Parsed[line].val = 3 /\ Shell("AWAIT_INT_INPUT", UpdatePrompt, <<prompt>>)
           \/ Parsed[line].val = 4 /\ Shell("AWAIT_INT_INPUT", TogglePrompt, <<prompt>>)
           \/ Parsed[line].val = 5 /\ Shell("AWAIT_INT_INPUT", DeletePrompt, <<prompt>>)

\* main: choices 3, 4, 5 first ask for the task id.
ChooseTarget ==
    /\ Awaiting(ChoicePrompt)
    /\ \E line \in IntLines :
        /\ Parsed[line].ok
        /\ Read(line, <<Parsed[line].val>>)
        /\ \/ Parsed[line].val = 3 /\ Shell("AWAIT_INT_INPUT", UpdatePrompt, <<prompt>>)
           \/ Parsed[line].val = 4 /\ Shell("AWAIT_INT_INPUT", DeletePrompt, <<prompt>>)
           \/ Parsed[line].val = 5 /\ Shell("AWAIT_INT_INPUT", TogglePrompt, <<prompt>>)

\* update_task reads its two lines only once it has found the task.
UpdateInputs(task_id) ==
    IF find_task(tasks, task_id) = 0 THEN {<<>>} ELSE TextInputs

\* main: update_task(tasks, task_id).
DoUpdate ==
    /\ Awaiting(UpdatePrompt)
    /\ \E line \in IntLines :
        /\ Parsed[line].ok
        /\ Read(line, <<Parsed[line].val>>)
        /\ \E title_in \in UpdateInputs(Parsed[line].val),
              desc_in \in UpdateInputs(Parsed[line].val) :
            Ran("update", Parsed[line].val,
                update_task(tasks, Parsed[line].val, title_in, desc_in))
        /\ UNCHANGED assigned

\* main: delete_task(tasks, task_id).
DoDelete ==
    /\ Awaiting(DeletePrompt)
    /\ \E line \in IntLines :
        /\ Parsed[line].ok
        /\ Read(line, <<Parsed[line].val>>)
        /\ Ran("delete", Parsed[line].val, delete_task(tasks, Parsed[line].val))
        /\ UNCHANGED assigned

\* main: toggle_complete(tasks, task_id).
DoToggle ==
    /\ Awaiting(TogglePrompt)
    /\ \E line \in IntLines :
        /\ Parsed[line].ok
        /\ Read(line, <<Parsed[line].val>>)
        /\ Ran("toggle", Parsed[line].val, toggle_complete(tasks, Parsed[line].val))
        /\ UNCHANGED assigned

\* The process has ended: main returned (EXIT), get_int_input called
\* sys.exit(0) (INTERRUPTED), or a KeyboardInterrupt raised by input() in
\* add_task or update_task reached the top level uncaught (ABORTED).
Ended == pc \in {"EXIT", "INTERRUPTED", "ABORTED"}

\* The exit status is success unless an exception ended the process.
Succeeded == pc \in {"EXIT", "INTERRUPTED"}

Next ==
    \/ DisplayMenu
    \/ InvalidInt
    \/ InterruptInt
    \/ OutOfRange
    \/ ChooseExit
    \/ ChooseAdd
    \/ ChooseList
    \/ ChooseTarget
    \/ DoUpdate
    \/ DoDelete
    \/ DoToggle

Spec == Init /\ [][Next]_vars

----------------------------------------------------------------------------
\* confirm(prompt).  main never calls it, so it is run on its own: the
\* program state is the call's position, the last line read and what the
\* call printed and returned.

ConfirmPrompt == <<"Delete? (y/n): ">>
InvalidConfirmMsg == <<"Invalid input. Please enter 'y' or 'n'.">>

Yes == <<"y", "e", "s">>
No == <<"n", "o">>

\* The characters a user types at the prompt.
ConfirmAlphabet == {"y", "Y", "e", "E", "s", "S", "n", "N", "o", "O", " "}

\* Every line as long as the longest answer at most, and some longer ones.
ConfirmLines ==
    UNION {[1..n -> ConfirmAlphabet] : n \in 0..Len(Yes)}
    \cup {Yes \o <<"s">>, Yes \o <<" ">>, <<" ">> \o Yes, No \o <<"o">>,
          <<"n", "o", "n", "e">>, <<"Y", "E", "S", "S">>}

\* str.lower() on these characters.
LowerCase == ("Y" :> "y") @@ ("E" :> "e") @@ ("S" :> "s") @@
             ("N" :> "n") @@ ("O" :> "o")

lower(s) ==
    [i \in 1..Len(s) |-> IF s[i] \in DOMAIN LowerCase THEN LowerCase[s[i]] ELSE s[i]]

\* A confirm that compares the line as typed, without lower().
confirm_case_sensitive(line) ==
    IF line \in {<<"y">>, Yes} THEN [returns |-> TRUE, value |-> "True", out |-> <<>>]
    ELSE IF line \in {<<"n">>, No} THEN [returns |-> TRUE, value |-> "False", out |-> <<>>]
    ELSE [returns |-> FALSE, value |-> "None", out |-> <<InvalidConfirmMsg>>]

\* One pass of confirm's loop on this line: return True, return False, or
\* print the message and go round again.
confirm(line) ==
    LET response == lower(line)
    IN  IF response \in {<<"y">>, Yes}
        THEN [returns |-> TRUE, value |-> "True", out |-> <<>>]
        ELSE IF response \in {<<"n">>, No}
        THEN [returns |-> TRUE, value |-> "False", out |-> <<>>]
        ELSE [returns |-> FALSE, value |-> "None", out |-> <<InvalidConfirmMsg>>]

\* confirm's pass on each line a user may type, computed once.
Answered == [l \in ConfirmLines |-> confirm(l)]

\* confirm has been called and is at input(prompt).
ConfirmInit ==
    /\ tasks = <<>>
    /\ pc = "AWAIT_CONFIRM"
    /\ prompt = ConfirmPrompt
    /\ out = <<>>
    /\ op = "none"
    /\ arg = 0
    /\ ret = "None"
    /\ assigned = {}
    /\ typed = NoLine
    /\ got = <<>>

\* confirm read this line.
ConfirmRead(line) ==
    /\ typed' = line
    /\ out' = <<prompt>> \o Answered[line].out
    /\ ret' = Answered[line].value
    /\ pc' = IF Answered[line].returns THEN "RETURNED" ELSE "AWAIT_CONFIRM"
    /\ UNCHANGED <<tasks, prompt, op, arg, assigned, got>>

ConfirmYes ==
    /\ pc = "AWAIT_CONFIRM"
    /\ \E line \in ConfirmLines :
        Answered[line].value = "True" /\ ConfirmRead(line)

ConfirmNo ==
    /\ pc = "AWAIT_CONFIRM"
    /\ \E line \in ConfirmLines :
        Answered[line].value = "False" /\ ConfirmRead(line)

ConfirmInvalid ==
    /\ pc = "AWAIT_CONFIRM"
    /\ \E line \in ConfirmLines :
        ~Answered[line].returns /\ ConfirmRead(line)

\* input() raises KeyboardInterrupt, which confirm does not catch.
ConfirmInterrupt ==
    /\ pc = "AWAIT_CONFIRM"
    /\ typed' = Interrupt
    /\ out' = <<prompt>>
    /\ pc' = "ABORTED"
    /\ UNCHANGED <<tasks, prompt, op, arg, ret, assigned, got>>

ConfirmNext ==
    \/ ConfirmYes
    \/ ConfirmNo
    \/ ConfirmInvalid
    \/ ConfirmInterrupt

ConfirmSpec == ConfirmInit /\ [][ConfirmNext]_vars

----------------------------------------------------------------------------
\* Properties

Ids(ts) == {ts[i].id : i \in 1..Len(ts)}

Largest(S) == CHOOSE m \in S : \A n \in S : n <= m

\* The position of the task with this id (used where the id is present).
IndexOf(ts, task_id) == CHOOSE i \in 1..Len(ts) : ts[i].id = task_id

Without(ts, i) == SubSeq(ts, 1, i - 1) \o SubSeq(ts, i + 1, Len(ts))

\* The step printed this line.
Printed(line) == \E k \in 1..Len(out') : out'[k] = line

\* The step was add_task running to its end.
Added == op' = "add" /\ pc' = "MENU"

\* C1: every id add_task assigns is new: no add assigns an id that an
\* earlier add assigned, so an id freed by delete_task is never given again.
C1_NoIdReuse ==
    [][Added => tasks'[Len(tasks')].id \notin assigned]_vars

\* C2: no two tasks of the list have the same id.
C2_UniqueIds ==
    \A i, j \in 1..Len(tasks) : i # j => tasks[i].id # tasks[j].id

\* C2 witness: an add after a delete left a list of several tasks.
C2_Witness ==
    /\ op = "add"
    /\ Len(tasks) >= 2
    /\ Ids(tasks) # assigned

\* C3: get_next_id is 1 on the empty list and otherwise one more than the
\* largest id present, whatever the order of the tasks, their number and
\* the ids deleted earlier.
C3_NextIdFormula ==
    LET expected == IF Len(tasks) = 0 THEN 1 ELSE 1 + Largest(Ids(tasks))
    IN  \A p \in Permutations(1..Len(tasks)) :
            get_next_id([i \in 1..Len(tasks) |-> tasks[p[i]]]) = expected

\* C3 witness: delete_task left the ids 1 and 3, a gap below the largest.
C3_Witness ==
    /\ op = "delete" /\ ret = "True"
    /\ Len(tasks) = 2
    /\ Ids(tasks) = {1, 3}

\* C4: add_task rejects no title and no description: it appends exactly one
\* task, with complete = False and the id get_next_id gave for the list
\* before the call, names that id in its success message, and leaves the
\* tasks that were there, and their order, as they were.
C4_AddAppends ==
    [][Added =>
        /\ Len(tasks') = Len(tasks) + 1
        /\ SubSeq(tasks', 1, Len(tasks)) = tasks
        /\ tasks'[Len(tasks')].id = get_next_id(tasks)
        /\ tasks'[Len(tasks')].complete = FALSE
        /\ Printed(AddedMsg(tasks'[Len(tasks')].id))]_vars

\* C4 witness: an add with an empty title and an empty description went
\* onto the end of a list that already held tasks.
C4_Witness ==
    /\ op = "add" /\ pc = "MENU"
    /\ Len(tasks) >= 2
    /\ tasks[Len(tasks)].title = <<>>
    /\ tasks[Len(tasks)].desc = <<>>

\* C5: when a task has the given id, delete_task returns True and removes
\* that one task: the list is one shorter, the other tasks are unchanged
\* and keep their order.
C5_DeleteRemovesOne ==
    [][(op' = "delete" /\ arg' \in Ids(tasks)) =>
        /\ ret' = "True"
        /\ Len(tasks') = Len(tasks) - 1
        /\ tasks' = Without(tasks, IndexOf(tasks, arg'))
        /\ arg' \notin Ids(tasks')]_vars

\* C5 witness: delete_task took the middle task out of three.
C5_Witness ==
    /\ op = "delete" /\ ret = "True" /\ arg = 2
    /\ Len(tasks) = 2
    /\ tasks[1].id = 1 /\ tasks[2].id = 3

\* C6: update_task, delete_task and toggle_complete called with an id no
\* task has (0 and negative ids included) return False, print only
\* "Task with ID <id> not found.", read no line and leave the list as it was.
C6_NotFound ==
    [][(op' \in {"update", "delete", "toggle"} /\ arg' \notin Ids(tasks)) =>
        /\ ret' = "False"
        /\ out' = <<prompt, NotFoundMsg(arg')>>
        /\ tasks' = tasks
        /\ pc' = "MENU"]_vars

\* C6 witness: a negative id was not found in a list that holds tasks.
C6_Witness ==
    /\ op \in {"update", "delete", "toggle"}
    /\ arg < 0
    /\ ret = "False"
    /\ tasks # <<>>

\* C7: update_task on an existing task treats the two fields apart: a new
\* title with an empty new description changes the title only, a new
\* description with an empty new title changes the description only, and two
\* empty replacements leave the task as it was, print no "Task updated." and
\* still return True.  Stated of the call main is about to make at the
\* "Enter task ID to update: " prompt, for every line it may then read.
C7_UpdateFieldIndependent ==
    Awaiting(UpdatePrompt) =>
        \A task_id \in Ids(tasks), title_in \in TextLines, desc_in \in TextLines :
            LET r == update_task(tasks, task_id, title_in, desc_in)
                i == IndexOf(tasks, task_id)
                new_title == strip(title_in)
                new_desc == strip(desc_in)
                said_updated == \E k \in 1..Len(r.out) : r.out[k] = UpdatedMsg
            IN  /\ r.ret = "True"
                /\ (new_title # <<>> /\ new_desc = <<>>) =>
                        r.tasks = [tasks EXCEPT ![i].title = new_title]
                /\ (new_title = <<>> /\ new_desc # <<>>) =>
                        r.tasks = [tasks EXCEPT ![i].desc = new_desc]
                /\ (new_title = <<>> /\ new_desc = <<>>) =>
                        r.tasks = tasks /\ ~said_updated

\* C7 witness: an update gave a task with an empty title a title and left
\* its description, which was not empty, alone.
C7_Witness ==
    /\ op = "update" /\ ret = "True"
    /\ \E k \in 1..Len(out) : out[k] = <<"Current title: ">>
    /\ \E k \in 1..Len(out) : out[k] = <<"Current description: ", "a">>
    /\ \E k \in 1..Len(out) : out[k] = UpdatedMsg
    /\ tasks[IndexOf(tasks, arg)].title = <<"a">>
    /\ tasks[IndexOf(tasks, arg)].desc = <<"a">>

\* C8: update_task prints "Task updated." only if a field changed: when the
\* title and the description after the call equal those before it, the
\* message is not printed.
C8_UpdatedOnlyIfChanged ==
    [][(op' = "update" /\ ret' = "True" /\ tasks' = tasks) =>
        ~Printed(UpdatedMsg)]_vars

\* C9: toggle_complete applied twice in a row to an id of the list gives
\* back the list it started from.
C9_ToggleInvolution ==
    \A task_id \in Ids(tasks) :
        LET once == toggle_complete(tasks, task_id)
            twice == toggle_complete(once.tasks, task_id)
        IN  /\ once.ret = "True" /\ twice.ret = "True"
            /\ once.tasks # tasks
            /\ twice.tasks = tasks

\* C9 witness: a toggle brought a task back to incomplete, the state
\* add_task created it in.
C9_Witness ==
    /\ op = "toggle" /\ ret = "True"
    /\ Len(tasks) >= 2
    /\ ~tasks[IndexOf(tasks, arg)].complete

\* C10: for an id of the list, toggle_complete negates that task's complete
\* flag, returns True and prints "Task marked as complete." exactly when
\* the flag is True afterwards, "Task marked as incomplete." exactly when it
\* is False.
C10_ToggleMessage ==
    [][(op' = "toggle" /\ arg' \in Ids(tasks)) =>
        LET i == IndexOf(tasks, arg')
        IN  /\ ret' = "True"
            /\ tasks'[i].complete = ~tasks[i].complete
            /\ Printed(CompleteMsg) <=> tasks'[i].complete
            /\ Printed(IncompleteMsg) <=> ~tasks'[i].complete]_vars

\* C10 witness: a toggle marked a task complete.
C10_Witness ==
    /\ op = "toggle" /\ ret = "True"
    /\ tasks[IndexOf(tasks, arg)].complete
    /\ out = <<TogglePrompt, CompleteMsg>>

\* C11: print_tasks is a pure projection: a list step leaves the list (ids,
\* titles, descriptions, flags, order, length) and the history of ids as
\* they were, and what it printed is what a second list right after it
\* prints.
C11_ListPure ==
    [][op' = "list" =>
        /\ tasks' = tasks
        /\ assigned' = assigned
        /\ out' = <<prompt>> \o print_tasks(tasks').out]_vars

\* C11 witness: a list step on a list that holds tasks.
C11_Witness ==
    /\ op = "list" /\ pc = "MENU"
    /\ Len(tasks) >= 2

\* C12: print_tasks prints exactly "No tasks yet. Add one!" for the empty
\* list, and otherwise "Tasks:", a line of dashes and one line per task, in
\* list order, "<id>. [X] <title> - <description>" for a complete task and
\* "<id>. [ ] <title> - <description>" for an incomplete one.
C12_ListFormat ==
    op = "list" =>
        IF tasks = <<>>
        THEN out = <<ChoicePrompt, <<"No tasks yet. Add one!">> >>
        ELSE /\ Len(out) = Len(tasks) + 3
             /\ out[1] = ChoicePrompt
             /\ out[2] = <<"Tasks:">>
             /\ out[3] = <<"------">>
             /\ \A i \in 1..Len(tasks) :
                    out[i + 3] =
                        <<ToString(tasks[i].id), ". ",
                          IF tasks[i].complete THEN "[X]" ELSE "[ ]", " ">>
                            \o tasks[i].title \o <<" - ">> \o tasks[i].desc

\* C12 witness: a list of a complete task followed by an incomplete one.
C12_Witness ==
    /\ op = "list"
    /\ Len(tasks) >= 2
    /\ tasks[1].complete /\ ~tasks[2].complete
    /\ tasks[1].title = <<"a">>

\* C13: get_menu_choice returns only integers in 0..5: an integer outside
\* 0..5 is answered with "Option <n> not valid. Please choose 0-5." naming
\* it, runs no operation, changes nothing in the list and goes back to the
\* top of the loop, where the menu is displayed and the choice asked again;
\* an integer in 0..5 never gets that message.
C13_MenuChoiceRange ==
    [][/\ (Awaiting(ChoicePrompt) /\ got' # <<>>) =>
            IF 0 <= got'[1] /\ got'[1] <= 5
            THEN /\ \A k \in 1..Len(out') : out'[k][1] # "Option "
                 /\ pc' # "MENU" \/ op' # "none"
            ELSE /\ out' = <<prompt, <<"Option ", ToString(got'[1]),
                                       " not valid. Please choose 0-5.">> >>
                 /\ pc' = "MENU"
                 /\ op' = "none"
                 /\ tasks' = tasks
                 /\ assigned' = assigned
       /\ pc = "MENU" =>
            /\ out' = display_menu
            /\ pc' = "AWAIT_INT_INPUT"
            /\ prompt' = ChoicePrompt
            /\ tasks' = tasks]_vars

\* C13 witness: the choice -1 was rejected while the list held tasks.
C13_Witness ==
    /\ pc = "MENU"
    /\ got = <<-1>>
    /\ op = "none"
    /\ tasks # <<>>

\* C14: an interrupt at any prompt (menu choice, task id, title or
\* description of add and update) prints the farewell "Goodbye!" and ends the
\* process with success status.
C14_InterruptIsGraceful ==
    (Ended /\ pc # "EXIT") =>
        /\ Succeeded
        /\ out[Len(out)] = <<"\nGoodbye!">>

\* C15: the process ends only through menu choice 0, which prints
\* "Goodbye! Have a nice day.", or through the interrupt path (farewell,
\* success status); it never ends or fails any other way.
C15_EndsOnlyByExitOrInterrupt ==
    Ended =>
        \/ /\ pc = "EXIT"
           /\ got = <<0>>
           /\ out = <<ChoicePrompt, <<"Goodbye! Have a nice day.">> >>
        \/ /\ pc = "INTERRUPTED"
           /\ typed = Interrupt
           /\ out = <<out[1], <<"\nGoodbye!">> >>

----------------------------------------------------------------------------
\* The user keeps supplying input: whenever the program can take a step
\* (it is displaying the menu, or a line or an interrupt is waiting at a
\* prompt), it eventually takes one.  main is a single sequential loop.
FairSpec == Spec /\ WF_vars(Next)

\* A choice in 1..5 has been dispatched: main is asking for its target id,
\* or its operation has run.
Dispatched ==
    \/ pc = "AWAIT_INT_INPUT" /\ prompt \in {UpdatePrompt, DeletePrompt, TogglePrompt}
    \/ op # "none"

\* Control is back in get_menu_choice: the menu is displayed and a choice
\* is prompted.
BackAtMenu == Awaiting(ChoicePrompt) /\ out = display_menu

\* The user interrupted instead of supplying a line.
Interrupted == pc \in {"INTERRUPTED", "ABORTED"}

\* get_int_input is asking for a target id.
AwaitingId == pc = "AWAIT_INT_INPUT" /\ prompt # ChoicePrompt

\* C16, as stated: after every dispatch of a choice in 1..5, control
\* eventually returns to the menu, provided the user keeps supplying input
\* lines (and does not interrupt).
C16_ReturnsToMenu == Dispatched ~> (BackAtMenu \/ Interrupted)

\* C16, amended: after every dispatch of a choice in 1..5, also one whose
\* operation reports not-found, control eventually returns to the menu,
\* provided the user keeps supplying input lines, does not interrupt, and
\* never stays at a target-id prompt forever (get_int_input retries without
\* limit until a line parses as an integer).
C16_ReturnsToMenuOnceIdGiven ==
    []<>(~AwaitingId) => (Dispatched ~> (BackAtMenu \/ Interrupted))

\* A not-found operation has run and the loop is about to continue.
C16_Witness ==
    /\ pc = "MENU" /\ op \in {"update", "delete", "toggle"} /\ ret = "False"
    /\ tasks # <<>> /\ typed \in IntLines

----------------------------------------------------------------------------
\* The tasks whose id is not task_id, in list order.
OtherThan(ts, task_id) == SelectSeq(ts, LAMBDA t : t.id # task_id)

\* The operation main runs after asking with this target-id prompt.
OperationFor(p) ==
    CASE p = UpdatePrompt -> "update"
      [] p = DeletePrompt -> "delete"
      [] p = TogglePrompt -> "toggle"

\* C17: dispatch maps each accepted choice to exactly one operation: 1 to
\* add, 2 to list, 0 to exit with no operation; 3, 4 and 5 first ask for the
\* target id with their own prompt and run nothing yet; update, delete and
\* toggle run only from their id prompt, on the integer it returned, and
\* leave every task with another id as it was.
C17_Dispatch ==
    [][ /\ (Awaiting(ChoicePrompt) /\ got' # <<>> /\ got'[1] \in 0..5) =>
            CASE got'[1] = 0 -> op' = "none" /\ pc' = "EXIT" /\ tasks' = tasks
              [] got'[1] = 1 -> op' = "add" /\ arg' = 0
              [] got'[1] = 2 -> op' = "list" /\ arg' = 0
              [] got'[1] = 3 -> /\ op' = "none" /\ tasks' = tasks
                                /\ pc' = "AWAIT_INT_INPUT" /\ prompt' = UpdatePrompt
              [] got'[1] = 4 -> /\ op' = "none" /\ tasks' = tasks
                                /\ pc' = "AWAIT_INT_INPUT" /\ prompt' = DeletePrompt
              [] got'[1] = 5 -> /\ op' = "none" /\ tasks' = tasks
                                /\ pc' = "AWAIT_INT_INPUT" /\ prompt' = TogglePrompt
        /\ (AwaitingId /\ got' # <<>>) =>
            /\ op' = OperationFor(prompt)
            /\ arg' = got'[1]
            /\ OtherThan(tasks', arg') = OtherThan(tasks, arg')
            /\ pc' = "MENU" => (ret' = "True") = (arg' \in Ids(tasks))
        /\ op' \in {"update", "delete", "toggle"} =>
            AwaitingId /\ got' = <<arg'>> /\ op' = OperationFor(prompt)
        /\ op' \in {"add", "list"} => Awaiting(ChoicePrompt)
      ]_vars

\* toggle ran on id 2, which is not the first task of the list.
C17_Witness ==
    /\ op = "toggle" /\ arg = 2 /\ got = <<2>> /\ ret = "True"
    /\ Len(tasks) >= 2 /\ tasks[1].id # 2

----------------------------------------------------------------------------
\* The lines of IntLines that are written integers, with the integer each
\* one writes; the other lines (empty, "x", "1a") write none.
WrittenInteger ==
    (<<"-", "1">> :> (0 - 1)) @@ (<<" ", "2", " ">> :> 2) @@
    (<<"0">> :> 0) @@ (<<"1">> :> 1) @@ (<<"2">> :> 2) @@ (<<"3">> :> 3) @@
    (<<"4">> :> 4) @@ (<<"5">> :> 5) @@ (<<"6">> :> 6)

\* C18: when get_int_input reads a line, it returns exactly when the line
\* writes an integer, and returns that integer, negative ones included; any
\* other line prints 'Invalid input. Please enter a valid integer.' and
\* leaves the same prompt open with the list untouched; the prompt keeps no
\* count of retries, so a further invalid line is always accepted.
C18_IntPrompt ==
    /\ [](pc = "AWAIT_INT_INPUT" => ENABLED InvalidInt)
    /\ [][ (pc = "AWAIT_INT_INPUT" /\ typed' # Interrupt) =>
             IF typed' \in DOMAIN WrittenInteger
             THEN /\ got' = <<WrittenInteger[typed']>>
                  /\ \A k \in 1..Len(out') : out'[k] # InvalidIntMsg
             ELSE /\ got' = <<>>
                  /\ out' = <<prompt, InvalidIntMsg>>
                  /\ pc' = "AWAIT_INT_INPUT" /\ prompt' = prompt
                  /\ op' = "none"
                  /\ tasks' = tasks /\ assigned' = assigned
         ]_vars

\* A second invalid line at the delete prompt of a non-empty list.
C18_Witness ==
    /\ Awaiting(DeletePrompt) /\ typed = <<"1", "a">> /\ got = <<>>
    /\ out = <<DeletePrompt, InvalidIntMsg>> /\ tasks # <<>>

----------------------------------------------------------------------------
\* The same letter in either case.
SameLetter(c, d) ==
    \/ c = d
    \/ {c, d} \in {{"y", "Y"}, {"e", "E"}, {"s", "S"}, {"n", "N"}, {"o", "O"}}

\* The line equals the word, case ignored.
EqualsIgnoringCase(line, word) ==
    /\ Len(line) = Len(word)
    /\ \A i \in 1..Len(word) : SameLetter(line[i], word[i])

\* C19: confirm returns True exactly for a line that, case ignored, equals
\* 'y' or 'yes', returns False exactly for one that equals 'n' or 'no', and
\* for any other line prints "Invalid input. Please enter 'y' or 'n'." and
\* asks again, with no limit on the retries.
C19_Confirm ==
    /\ [](pc = "AWAIT_CONFIRM" => ENABLED ConfirmInvalid)
    /\ [][ (pc = "AWAIT_CONFIRM" /\ typed' # Interrupt) =>
             IF EqualsIgnoringCase(typed', <<"y">>) \/ EqualsIgnoringCase(typed', Yes)
             THEN pc' = "RETURNED" /\ ret' = "True" /\ out' = <<prompt>>
             ELSE IF EqualsIgnoringCase(typed', <<"n">>) \/ EqualsIgnoringCase(typed', No)
             THEN pc' = "RETURNED" /\ ret' = "False" /\ out' = <<prompt>>
             ELSE /\ pc' = "AWAIT_CONFIRM" /\ prompt' = prompt
                  /\ ret' = "None"
                  /\ out' = <<prompt, InvalidConfirmMsg>>
         ]_vars

\* 'YeS' was accepted.
C19_Witness ==
    pc = "RETURNED" /\ ret = "True" /\ typed = <<"Y", "e", "S">>

----------------------------------------------------------------------------
\* C20: in every state reachable from the empty list, every task id, and
\* every id ever assigned, is an integer >= 1, whatever was entered at the
\* id prompts (0 and negative numbers included); an add that leaves a
\* single task, that is an add on an empty list, assigned id 1.
C20_PositiveIds ==
    /\ \A i \in 1..Len(tasks) : tasks[i].id \in Nat /\ tasks[i].id >= 1
    /\ \A n \in assigned : n \in Nat /\ n >= 1
    /\ (op = "add" /\ pc = "MENU" /\ Len(tasks) = 1) => tasks[1].id = 1

\* An operation was asked for id 0 or a negative id on a non-empty list.
C20_Witness ==
    /\ op \in {"update", "delete", "toggle"} /\ arg <= 0 /\ got = <<arg>>
    /\ typed \in {<<"-", "1">>, <<"0">>}
    /\ tasks # <<>>

----------------------------------------------------------------------------
\* The line has no leading and no trailing whitespace.
Trimmed(s) == s = <<>> \/ (~IsSpace(s[1]) /\ ~IsSpace(s[Len(s)]))

\* Each line of TextLines with its surrounding whitespace taken off.
TrimmedLine ==
    (<<>> :> <<>>) @@ (<<" ">> :> <<>>) @@ (<<"a">> :> <<"a">>) @@
    (<<" ", "a", " ">> :> <<"a">>)

\* C21: every stored title and description is trimmed.  Of the calls main
\* may make next from the menu: add_task stores the trimmed title and
\* description lines, and update_task stores the trimmed replacement, a
\* replacement that is empty or only whitespace keeping the current value.
C21_StoredTextTrimmed ==
    /\ \A i \in 1..Len(tasks) : Trimmed(tasks[i].title) /\ Trimmed(tasks[i].desc)
    /\ BackAtMenu =>
        \A title_in \in TextLines, desc_in \in TextLines :
            /\ LET added == add_task(tasks, title_in, desc_in).tasks
               IN  /\ Len(added) = Len(tasks) + 1
                   /\ added[Len(added)].title = TrimmedLine[title_in]
                   /\ added[Len(added)].desc = TrimmedLine[desc_in]
            /\ \A i \in 1..Len(tasks) :
                LET updated == update_task(tasks, tasks[i].id, title_in, desc_in).tasks
                IN  /\ updated[i].title = IF TrimmedLine[title_in] = <<>>
                                          THEN tasks[i].title
                                          ELSE TrimmedLine[title_in]
                    /\ updated[i].desc = IF TrimmedLine[desc_in] = <<>>
                                         THEN tasks[i].desc
                                         ELSE TrimmedLine[desc_in]

\* An update that printed no "Task updated." kept a title and an empty
\* description, next to a task added without a title.
C21_Witness ==
    /\ op = "update" /\ ret = "True" /\ pc = "MENU"
    /\ \A k \in 1..Len(out) : out[k] # UpdatedMsg
    /\ Len(tasks) >= 2
    /\ tasks[IndexOf(tasks, arg)].title = <<"a">>
    /\ tasks[IndexOf(tasks, arg)].desc = <<>>
    /\ \E i \in 1..Len(tasks) : tasks[i].title = <<>>

----------------------------------------------------------------------------
\* C22: the list is strictly ascending by id, so insertion order and id
\* order coincide and the last task holds the largest id.
C22_AscendingIds ==
    /\ \A i \in 1..(Len(tasks) - 1) : tasks[i].id < tasks[i + 1].id
    /\ tasks # <<>> => \A i \in 1..Len(tasks) : tasks[i].id <= tasks[Len(tasks)].id

\* An add after the first task was deleted: the list no longer starts at 1.
C22_Witness ==
    /\ op = "add" /\ pc = "MENU"
    /\ Len(tasks) >= 2
    /\ tasks[1].id # 1
    /\ tasks[Len(tasks)].id = Largest(assigned)

----------------------------------------------------------------------------
\* C23: update_task and toggle_complete change no task's id, neither the
\* number of tasks nor their order, and no task but the one with the given
\* id; update_task leaves the complete flag alone and turns no non-empty
\* title or description into an empty one; toggle_complete leaves title and
\* description alone.
C23_UpdateToggleFrame ==
    [][op' \in {"update", "toggle"} =>
        /\ Len(tasks') = Len(tasks)
        /\ \A i \in 1..Len(tasks) :
            /\ tasks'[i].id = tasks[i].id
            /\ tasks[i].id # arg' => tasks'[i] = tasks[i]
            /\ op' = "update" =>
                /\ tasks'[i].complete = tasks[i].complete
                /\ tasks[i].title # <<>> => tasks'[i].title # <<>>
                /\ tasks[i].desc # <<>> => tasks'[i].desc # <<>>
            /\ op' = "toggle" =>
                /\ tasks'[i].title = tasks[i].title
                /\ tasks'[i].desc = tasks[i].desc
       ]_vars

\* An update changed a completed task that stands after an incomplete one.
C23_Witness ==
    /\ op = "update" /\ ret = "True"
    /\ \E k \in 1..Len(out) : out[k] = UpdatedMsg
    /\ Len(tasks) >= 2
    /\ IndexOf(tasks, arg) >= 2
    /\ tasks[IndexOf(tasks, arg)].complete
    /\ ~tasks[1].complete

----------------------------------------------------------------------------
\* No delete has taken the largest id out of the list: the largest id ever
\* assigned is still the largest id of the list.
Intact ==
    assigned = {} \/ (tasks # <<>> /\ Largest(Ids(tasks)) = Largest(assigned))

\* The step is a delete_task that removes the task holding the largest id.
DeletesLargest ==
    /\ op' = "delete" /\ ret' = "True"
    /\ arg' = Largest(Ids(tasks))

\* C24: in a run in which no delete removes the task holding the largest
\* id, every add assigns an id greater than every id assigned before it.
\* By induction over the run: the largest assigned id is in the list at the
\* start (none is assigned), every step other than such a delete keeps it
\* there (a step that changes neither the list nor the assigned ids keeps
\* it trivially), and an add made while it is there assigns a greater id.
C24_IncreasingIds ==
    /\ Intact
    /\ [][ /\ (<<tasks, assigned>>' # <<tasks, assigned>> /\ ~DeletesLargest /\ Intact)
                => Intact'
           /\ (Added /\ Intact) =>
                \A n \in assigned : tasks'[Len(tasks')].id > n
         ]_vars

\* An add gave id 3 after task 1, not the largest, had been deleted.
C24_Witness ==
    /\ op = "add" /\ pc = "MENU"
    /\ \E k \in 1..Len(out) : out[k] = AddedMsg(3)
    /\ 1 \notin Ids(tasks) /\ 2 \in Ids(tasks)
    /\ assigned = {1, 2, 3}

====
